---- MODULE Spec2Model ----
(***************************************************************************)
(* The CinderAPI controller of pkg/cinderapi/statefuleset.go: one          *)
(* Reconcile pass at a time over one declared resource, its status, and    *)
(* the cluster objects and collaborators the pass calls.  Every blocking   *)
(* call of the pass (object-store get/update/patch, secret and config-map  *)
(* lookups, endpoint exposure, identity-service calls, deployment apply)   *)
(* is one action; the environment (operators, the parent controller, the   *)
(* kubelet) acts between any two of them.                                  *)
(***************************************************************************)
EXTENDS Naturals, Sequences, FiniteSets, TLC

\* ------------------------------------------------------------------ bounds

\* The credentials secret is absent (0) or holds one of 1..MaxContent contents.
MaxContent == 1

\* The deployment reports 0..MaxReplicas ready replicas.
MaxReplicas == 1

\* Where the calls are taken to succeed eventually, at most MaxFailures of them
\* fail or ask for a retry.
MaxFailures == 2

\* --------------------------------------------------------------- constants

\* time.Second * 10: the delayed retry of a missing secret or parent config map.
RequeueSecs == 10

\* keystone.NewKeystoneService(..., 10): the registration's requeue timeout.
KeystoneTimeout == 10

\* deployment.NewDeployment(..., 5): the deployment's requeue timeout.
DeploymentTimeout == 5

\* keystoneServices: the two facades, in declared order.
keystoneServices == <<"V2", "V3">>

\* The endpoint scopes exposed per facade.
Scopes == {"admin", "public", "internal"}

\* common.InputHashName: the fixed key of the aggregate hash in Status.Hash.
InputHashName == "input"

\* instance.Spec.Secret.
SecretName == "osp-secret"

\* cinder.GetOwningCinderName(instance).
ParentName == "cinder"

\* "<parent>-scripts" and "<parent>-config-data".
ParentConfigMaps == {"cinder-scripts", "cinder-config-data"}

\* "<instance>-config-data", the component-specific config map.
ServiceConfigMap == "cinder-api-config-data"

\* ------------------------------------------------------------- Go maps

\* A Go map is nil or holds keys; kv is its content as a function.
NilMap == [present |-> FALSE, kv |-> <<>>]

EmptyMap == [present |-> TRUE, kv |-> <<>>]

\* "if m == nil { m = map{} }": allocate only when nil, keep what is there.
EnsureMap(m) == IF m.present THEN m ELSE EmptyMap

\* m[k] = v.
Put(m, k, v) ==
    [present |-> TRUE,
     kv |-> [x \in (DOMAIN m.kv) \cup {k} |-> IF x = k THEN v ELSE m.kv[x]]]

\* m[k] of a map of maps: the zero value (a nil map, no entries) when k is absent.
Lookup(m, k) == IF k \in DOMAIN m.kv THEN m.kv[k] ELSE <<>>

\* JSON encoding of a map field tagged omitempty: nil and empty both vanish.
ToJSONMap(m) == IF m.present THEN m.kv ELSE <<>>

\* JSON decoding into a zero object: an absent field leaves the map nil.
FromJSONMap(kv) == IF DOMAIN kv = {} THEN NilMap ELSE [present |-> TRUE, kv |-> kv]

\* The status as the object store holds it.
ToJSON(st) ==
    [Hash |-> ToJSONMap(st.Hash),
     APIEndpoints |-> ToJSONMap(st.APIEndpoints),
     ServiceIDs |-> ToJSONMap(st.ServiceIDs),
     ReadyCount |-> st.ReadyCount]

\* The status as a freshly decoded object holds it.
FromJSON(js) ==
    [Hash |-> FromJSONMap(js.Hash),
     APIEndpoints |-> FromJSONMap(js.APIEndpoints),
     ServiceIDs |-> FromJSONMap(js.ServiceIDs),
     ReadyCount |-> js.ReadyCount]

EmptyStatusJSON == [Hash |-> <<>>, APIEndpoints |-> <<>>, ServiceIDs |-> <<>>, ReadyCount |-> 0]

\* Reconcile's "initialize status": each nil status map becomes an empty one.
InitStatus(st) ==
    [st EXCEPT !.Hash = EnsureMap(@),
               !.APIEndpoints = EnsureMap(@),
               !.ServiceIDs = EnsureMap(@)]

\* How the client decodes a write's response into the caller's object: "merge"
\* leaves a field the response omits as it is in memory and adds the response's
\* keys to a map; "replace" takes the response alone, so an omitted map is nil.
RefreshModes == {"merge", "replace"}

MergeMap(m, kv) ==
    IF DOMAIN kv = {} THEN m
    ELSE [present |-> TRUE,
          kv |-> [x \in (DOMAIN m.kv) \cup (DOMAIN kv) |->
                     IF x \in DOMAIN kv THEN kv[x] ELSE m.kv[x]]]

Refresh(st, js, mode) ==
    IF mode = "replace" THEN FromJSON(js)
    ELSE [Hash |-> MergeMap(st.Hash, js.Hash),
          APIEndpoints |-> MergeMap(st.APIEndpoints, js.APIEndpoints),
          ServiceIDs |-> MergeMap(st.ServiceIDs, js.ServiceIDs),
          ReadyCount |-> IF js.ReadyCount = 0 THEN st.ReadyCount ELSE js.ReadyCount]

\* One map field of client.MergeFrom(before) applied to the stored object: the
\* keys the pass added or changed are set, the keys it dropped are removed.
PatchMap(stored, b, a) ==
    LET set == {k \in DOMAIN a : k \notin DOMAIN b \/ b[k] # a[k]}
        del == (DOMAIN b) \ (DOMAIN a)
    IN  [k \in ((DOMAIN stored) \ del) \cup set |-> IF k \in set THEN a[k] ELSE stored[k]]

\* r.Status().Patch(ctx, instance, client.MergeFrom(before)) on the stored status.
MergePatch(stored, b, a) ==
    [Hash |-> PatchMap(stored.Hash, b.Hash, a.Hash),
     APIEndpoints |-> PatchMap(stored.APIEndpoints, b.APIEndpoints, a.APIEndpoints),
     ServiceIDs |-> PatchMap(stored.ServiceIDs, b.ServiceIDs, a.ServiceIDs),
     ReadyCount |-> IF b.ReadyCount # a.ReadyCount THEN a.ReadyCount ELSE stored.ReadyCount]

\* ------------------------------------------------------ results and errors

EmptyResult == [Requeue |-> FALSE, RequeueAfter |-> 0]

NoErr == [msg |-> "", arg |-> ""]

Err(msg, arg) == [msg |-> msg, arg |-> arg]

\* What a pass returns: (ctrl.Result, error).
Return(r, e) == [res |-> r, err |-> e]

\* A collaborator's own error, surfaced as it is.
CallErr(op) == Err("call failed", op)

\* endpoint.ExposeEndpoints' scope -> URL map for one facade (path /v2 or /v3).
EndpointsOf(f) == [s \in Scopes |-> <<s, f>>]

\* ksSvcObj.GetServiceID(): the opaque identifier of a facade's registration.
ServiceIDOf(f) == <<"id", f>>

\* ---------------------------------------------------------------- state

VARIABLES
    cluster,        \* the object store and the collaborators' objects
    pc,             \* where the pass is
    instance,       \* the pass's in-memory copy of the declared resource
    before,         \* helper.GetBeforeObject(): the status observed at the start
    configMapVars,  \* name -> content hash of the inputs recorded so far
    inputHash,      \* createHashOfInputHashes' result
    trace,          \* the calls of this pass, in order, each with its outcome
    result,         \* what the pass returns
    stale,          \* the stored resource changed under the pass's copy
    mapEvents,      \* a status map indexed while nil, or re-made while present
    hist,           \* the previous pass, while this pass repeats it undisturbed
    retries,        \* how many more calls may fail, where that is limited
    fleet,          \* several declared resources: their passes and whose writes name which object
    rendered,       \* the builder: a declared resource's spec and what StatefulSet made of it
    watch           \* the ConfigMap watch: the declared resources and the last event mapped

vars == <<cluster, pc, instance, before, configMapVars, inputHash, trace, result,
          stale, mapEvents, hist, retries, fleet, rendered, watch>>

\* What the passes of the one resource leave alone.
others == <<fleet, rendered, watch>>

passVars == <<pc, instance, before, configMapVars, inputHash, trace, result, mapEvents>>

Gone == [exists |-> FALSE, finalizer |-> FALSE, deleting |-> FALSE, status |-> EmptyStatusJSON]

Fresh == [exists |-> TRUE, finalizer |-> FALSE, deleting |-> FALSE, status |-> EmptyStatusJSON]

NoInstance == [finalizer |-> FALSE, deleting |-> FALSE, status |-> FromJSON(EmptyStatusJSON)]

\* hist is kept only in the specification that compares successive passes.
HistOff == [on |-> FALSE, valid |-> FALSE, collab |-> <<>>]

NoHist == [on |-> TRUE, valid |-> FALSE, collab |-> <<>>]

\* Calls fail as often as they like, or at most n more times.
Unlimited == [limited |-> FALSE, left |-> 0]

Limited(n) == [limited |-> TRUE, left |-> n]

NoReturn == Return(EmptyResult, NoErr)

\* No second resource is looked at; the builder is not looked at.
NoFleet == [res |-> <<>>, at |-> <<>>, writers |-> <<>>]

NoRender == [spec |-> <<>>, calls |-> <<>>]

NoWatch == [on |-> FALSE, apis |-> <<>>, last |-> <<>>]

Call(op, out) == [op |-> op, out |-> out]

Ops(t) == [i \in DOMAIN t |-> t[i].op]

OpSet(t) == {t[i].op : i \in DOMAIN t}

\* The cluster when the resource has just been declared: nothing of this
\* controller's exists yet; the secret holds s (0: absent) and the parent's
\* config maps are cms.
NewCluster(s, cms) ==
    [res |-> Fresh,
     secret |-> s,
     parentCMs |-> cms,
     svcCM |-> FALSE,
     exposed |-> FALSE,
     keystone |-> <<>>,
     depl |-> [applied |-> FALSE, hash |-> {}, ready |-> 0]]

\* No pass is running.
InitLocals ==
    /\ pc = "idle"
    /\ instance = NoInstance
    /\ before = EmptyStatusJSON
    /\ configMapVars = <<>>
    /\ inputHash = {}
    /\ trace = <<>>
    /\ result = NoReturn
    /\ stale = FALSE
    /\ mapEvents = {}

InitPass == cluster = NewCluster(0, {}) /\ InitLocals

Init == InitPass /\ hist = HistOff /\ retries = Unlimited /\ fleet = NoFleet /\ rendered = NoRender /\ watch = NoWatch

\* ---------------------------------------------------------- environment

InPass == pc # "idle"

\* The environment changes stored objects to c.  It does not act in the instant
\* between a pass's last step and its return.
EnvStep(c) ==
    /\ pc # "done"
    /\ hist.on => ~InPass
    /\ cluster' = c
    /\ hist' = IF hist.on THEN NoHist ELSE hist
    /\ UNCHANGED <<passVars, retries, others>>

\* An operator creates, rotates or deletes the credentials secret.
SetSecret(c) ==
    /\ c # cluster.secret
    /\ EnvStep([cluster EXCEPT !.secret = c])
    /\ UNCHANGED stale

\* The parent controller creates or removes one of its two config maps.  A pass
\* reads them in one call, so a change during a pass is a change before or after it.
SetParentConfigMap(n) ==
    /\ ~InPass
    /\ EnvStep([cluster EXCEPT !.parentCMs =
                   IF n \in @ THEN @ \ {n} ELSE @ \cup {n}])
    /\ UNCHANGED stale

\* The deployment's pods become ready or unready.  A pass reads the count in one
\* call, so a change during a pass is a change before or after it.
SetReady(n) ==
    /\ ~InPass
    /\ cluster.depl.applied
    /\ n # cluster.depl.ready
    /\ EnvStep([cluster EXCEPT !.depl.ready = n])
    /\ UNCHANGED stale

\* An operator deletes the declared resource: with a finalizer on it the object
\* store only stamps the deletion time, without one the object is gone.
DeleteResource ==
    /\ cluster.res.exists
    /\ ~cluster.res.deleting
    /\ EnvStep([cluster EXCEPT !.res =
                   IF @.finalizer THEN [@ EXCEPT !.deleting = TRUE] ELSE Gone])
    /\ stale' = InPass

Env ==
    \/ \E c \in 0..MaxContent : SetSecret(c)
    \/ \E n \in ParentConfigMaps : SetParentConfigMap(n)
    \/ \E n \in 0..MaxReplicas : SetReady(n)
    \/ DeleteResource

\* ------------------------------------------------------ Reconcile: entry

\* The calls of a pass by which two passes are compared: all but the status
\* writes, which a repeated pass is claimed not to make.
Collab(t) == SelectSeq(t, LAMBDA c : c.op \notin {"StatusUpdate", "StatusPatch"})

StatusFailed(t) == \E i \in DOMAIN t : t[i].op \in {"StatusUpdate", "StatusPatch"} /\ t[i].out # "ok"

IsPrefix(a, b) == Len(a) <= Len(b) /\ \A i \in DOMAIN a : a[i] = b[i]

\* hist after a step that leaves the pass's calls as t: the previous pass is
\* remembered while this pass makes the same calls with the same outcomes.
HistNext(h, t) ==
    IF h.valid /\ IsPrefix(Collab(t), h.collab) THEN h
    ELSE IF h.on THEN NoHist ELSE h

\* The calls among these that failed or asked for a retry.
Failed(calls) == Cardinality({i \in DOMAIN calls : calls[i].out # "ok"})

\* A pass step: the call is logged, the stored objects become c.  Where failures
\* are limited, those of a pass whose copy the store has outdated are not counted:
\* its writes are refused for that reason, once per change of the resource.
Step(c, calls) ==
    /\ (retries.limited /\ ~stale) => Failed(calls) <= retries.left
    /\ retries' = IF retries.limited /\ ~stale
                  THEN Limited(retries.left - Failed(calls))
                  ELSE retries
    /\ UNCHANGED others
    /\ cluster' = c
    /\ trace' = trace \o calls
    /\ hist' = HistNext(hist, trace \o calls)

\* The step's result aborts the pass; the deferred status patch is still to run.
Abort(r, e) ==
    /\ result' = Return(r, e)
    /\ pc' = "defer"

\* r.Client.Get's outcome for the declared resource.
GetAnswer(o) ==
    IF o = "error" THEN "error"
    ELSE IF ~cluster.res.exists THEN "notfound" ELSE "ok"

\* GetReturn with the not-found case forgotten: every failed fetch is an error.
GetReturnError(ans) == Return(EmptyResult, CallErr("Get"))

\* What Reconcile returns when the fetch did not succeed: nothing to do for an
\* object that is gone, the error otherwise.
GetReturn(ans) ==
    IF ans = "notfound" THEN Return(EmptyResult, NoErr)
    ELSE Return(EmptyResult, CallErr("Get"))

\* r.Client.Get, then "initialize status".  The framework starts a pass when no
\* other pass of the resource is running.
ReconcileGet(o) ==
    /\ pc = "idle"
    /\ Step(cluster, <<Call("Get", GetAnswer(o))>>)
    /\ UNCHANGED <<before, configMapVars, inputHash, stale, mapEvents>>
    /\ IF GetAnswer(o) = "ok"
       THEN /\ result' = NoReturn
            /\ pc' = "helper"
            /\ instance' = [finalizer |-> cluster.res.finalizer,
                            deleting |-> cluster.res.deleting,
                            status |-> InitStatus(FromJSON(cluster.res.status))]
       ELSE /\ result' = GetReturn(GetAnswer(o))
            /\ pc' = "done"
            /\ UNCHANGED instance

\* The delete path's guard: "if instance.Status.APIEndpoints != nil".
DeleteEntry(st) == IF st.APIEndpoints.present THEN "ksDelete1" ELSE "removeFinalizer"

\* Reconcile without its check of the deletion timestamp.
ReconcileBranchNormal(inst) == "addFinalizer"

\* "if !instance.DeletionTimestamp.IsZero() { return r.reconcileDelete(...) }
\* return r.reconcileNormal(...)".
ReconcileBranch(inst) ==
    IF inst.deleting THEN DeleteEntry(inst.status) ELSE "addFinalizer"

\* helper.NewHelper snapshots the object; the deferred patch is registered; the
\* pass branches on the deletion timestamp.
ReconcileNewHelper(o) ==
    /\ pc = "helper"
    /\ Step(cluster, <<Call("NewHelper", o)>>)
    /\ IF o = "error"
       THEN /\ result' = Return(EmptyResult, CallErr("NewHelper"))
            /\ pc' = "done"
            /\ UNCHANGED before
       ELSE /\ before' = ToJSON(instance.status)
            /\ pc' = ReconcileBranch(instance)
            /\ UNCHANGED result
    /\ UNCHANGED <<instance, configMapVars, inputHash, stale, mapEvents>>

\* ------------------------------------------------- reconcileNormal: inputs

\* AddFinalizer left out: the object is persisted as it was fetched.
AddFinalizerSkip(inst) == inst

\* controllerutil.AddFinalizer(instance, helper.GetFinalizer()).
AddFinalizer(inst) == [inst EXCEPT !.finalizer = TRUE]

\* The Update's error logged and the pass carrying on.
UpdateAbortsNever(o) == FALSE

\* "if err := r.Update(ctx, instance); err != nil { return ctrl.Result{}, err }".
UpdateAborts(o) == o # "ok"

\* controllerutil.AddFinalizer, then r.Update: the finalizer is persisted at once.
\* The object store refuses the write when the stored object changed under the
\* pass's copy; it ignores the status of the request and answers with the stored
\* object, which the client decodes into instance.
reconcileNormalUpdate(o, mode) ==
    /\ pc = "addFinalizer"
    /\ o = "ok" => ~stale
    /\ IF o = "ok"
       THEN /\ Step([cluster EXCEPT !.res.finalizer = AddFinalizer(instance).finalizer],
                    <<Call("Update", "ok")>>)
            /\ instance' = [AddFinalizer(instance) EXCEPT
                               !.status = Refresh(@, cluster.res.status, mode)]
       ELSE /\ Step(cluster, <<Call("Update", "error")>>)
            /\ instance' = AddFinalizer(instance)
    /\ IF UpdateAborts(o)
       THEN Abort(EmptyResult, CallErr("Update"))
       ELSE pc' = "getSecret" /\ UNCHANGED result
    /\ UNCHANGED <<before, configMapVars, inputHash, stale, mapEvents>>

\* The content hash the secret accessor and the config-map helpers return.
ContentHash(name, content) == <<name, content>>

\* secret.GetSecret's outcome for the declared secret.
SecretLookup(o) ==
    IF o = "error" THEN "error"
    ELSE IF cluster.secret = 0 THEN "notfound" ELSE "ok"

\* SecretAbort without the not-found case: the lookup's error goes back as it
\* is, with no delay requested.
SecretAbortBare(out) == Abort(EmptyResult, CallErr("GetSecret"))

\* The result of a secret lookup that did not succeed.
SecretAbort(out) ==
    IF out = "notfound"
    THEN Abort([Requeue |-> FALSE, RequeueAfter |-> RequeueSecs],
               Err("OpenStack secret not found", SecretName))
    ELSE Abort(EmptyResult, CallErr("GetSecret"))

\* secret.GetSecret(instance.Spec.Secret): record the secret's content hash.
reconcileNormalGetSecret(o) ==
    /\ pc = "getSecret"
    /\ Step(cluster, <<Call("GetSecret", SecretLookup(o))>>)
    /\ IF SecretLookup(o) = "ok"
       THEN /\ configMapVars' = (SecretName :> ContentHash(SecretName, cluster.secret))
            /\ pc' = "ensureCM"
            /\ UNCHANGED result
       ELSE /\ SecretAbort(SecretLookup(o))
            /\ UNCHANGED configMapVars
    /\ UNCHANGED <<instance, before, inputHash, stale, mapEvents>>

\* generateServiceConfigMaps with "return err" in its error branch.
EnsureErrorSurfaced(o) == IF o = "ok" THEN NoErr ELSE CallErr("EnsureConfigMaps")

\* What generateServiceConfigMaps returns for EnsureConfigMaps' outcome: nil on
\* success and nil on failure.
EnsureError(o) == NoErr

\* configmap.EnsureConfigMaps of "<instance>-config-data"; on success its content
\* hash is recorded.  reconcileNormal aborts only if an error comes back.
generateServiceConfigMaps(o) ==
    /\ pc = "ensureCM"
    /\ Step(IF o = "ok" THEN [cluster EXCEPT !.svcCM = TRUE] ELSE cluster,
            <<Call("EnsureConfigMaps", o)>>)
    /\ configMapVars' = IF o = "ok"
                        THEN configMapVars @@ (ServiceConfigMap :> ContentHash(ServiceConfigMap, 1))
                        ELSE configMapVars
    /\ IF EnsureError(o) = NoErr
       THEN pc' = "getCMs" /\ UNCHANGED result
       ELSE Abort(EmptyResult, EnsureError(o))
    /\ UNCHANGED <<instance, before, inputHash, stale, mapEvents>>

\* GetConfigMaps satisfied by either of the two config maps.
ConfigMapsLookupAny(o) ==
    IF o = "error" THEN "error"
    ELSE IF ParentConfigMaps \cap cluster.parentCMs # {} THEN "ok" ELSE "notfound"

\* configmap.GetConfigMaps' outcome for the two parent config maps.
ConfigMapsLookup(o) ==
    IF o = "error" THEN "error"
    ELSE IF ParentConfigMaps \subseteq cluster.parentCMs THEN "ok" ELSE "notfound"

\* configmap.GetConfigMaps of the parent's config maps: record their hashes.
reconcileNormalGetConfigMaps(o) ==
    /\ pc = "getCMs"
    /\ Step(cluster, <<Call("GetConfigMaps", ConfigMapsLookup(o))>>)
    /\ CASE ConfigMapsLookup(o) = "ok" ->
              /\ configMapVars' = configMapVars @@ [n \in ParentConfigMaps |-> ContentHash(n, 1)]
              /\ pc' = "hash"
              /\ UNCHANGED result
         [] ConfigMapsLookup(o) = "notfound" ->
              /\ Abort([Requeue |-> FALSE, RequeueAfter |-> RequeueSecs],
                       Err("Could not find all config maps for parent Cinder CR", ParentName))
              /\ UNCHANGED configMapVars
         [] OTHER ->
              /\ Abort(EmptyResult, CallErr("GetConfigMaps"))
              /\ UNCHANGED configMapVars
    /\ UNCHANGED <<instance, before, inputHash, stale, mapEvents>>

\* util.ObjectHash(env.MergeEnvs(envVars)): a digest of the name-sorted inputs.
ObjectHash(envVars) == {<<n, envVars[n]>> : n \in DOMAIN envVars}

\* What indexing a status map does to the record of map events: given the map
\* as it was and as the nil check left it.
MapEvents(was, now) ==
    (IF ~now.present THEN {"nilIndex"} ELSE {})
    \cup (IF was.present /\ now # was THEN {"remade"} ELSE {})

\* SetHash that stores without comparing and always reports a change.
SetHashAlways(m, k, v) ==
    [map |-> Put(EnsureMap(m), k, v), changed |-> TRUE, ensured |-> EnsureMap(m)]

\* SetHash that stores a hash only under a name that has none yet.
SetHashIfAbsent(m, k, v) ==
    LET mm == EnsureMap(m)
        changed == k \notin DOMAIN mm.kv
    IN  [map |-> IF changed THEN Put(mm, k, v) ELSE mm, changed |-> changed, ensured |-> mm]

\* util.SetHash(hashMap, name, hash): allocates a nil map, stores the hash when it
\* differs from the stored one and says whether it did.
SetHash(m, k, v) ==
    LET mm == EnsureMap(m)
        changed == k \notin DOMAIN mm.kv \/ mm.kv[k] # v
    IN  [map |-> IF changed THEN Put(mm, k, v) ELSE mm, changed |-> changed, ensured |-> mm]

\* createHashOfInputHashes: the aggregate hash; when it differs from
\* Status.Hash[InputHashName] the status is written with r.Client.Status().Update.
createHashOfInputHashes(o, mode) ==
    LET hash == ObjectHash(configMapVars)
        sh == SetHash(instance.status.Hash, InputHashName, hash)
        st == [instance.status EXCEPT !.Hash = sh.map]
    IN  /\ pc = "hash"
        /\ o = "ok" => (sh.changed => ~stale)
        /\ o = "error" => sh.changed
        /\ CASE o = "hashError" ->
                  /\ Step(cluster, <<Call("ObjectHash", "error")>>)
                  /\ Abort(EmptyResult, CallErr("ObjectHash"))
                  /\ UNCHANGED <<instance, inputHash, mapEvents>>
             [] o = "error" ->
                  /\ Step(cluster, <<Call("ObjectHash", "ok"), Call("StatusUpdate", "error")>>)
                  /\ instance' = [instance EXCEPT !.status = st]
                  /\ mapEvents' = mapEvents \cup MapEvents(instance.status.Hash, sh.ensured)
                  /\ Abort(EmptyResult, CallErr("StatusUpdate"))
                  /\ UNCHANGED inputHash
             [] o = "ok" /\ sh.changed ->
                  /\ Step([cluster EXCEPT !.res.status = ToJSON(st)],
                          <<Call("ObjectHash", "ok"), Call("StatusUpdate", "ok")>>)
                  /\ instance' = [instance EXCEPT !.status = Refresh(st, ToJSON(st), mode)]
                  /\ mapEvents' = mapEvents \cup MapEvents(instance.status.Hash, sh.ensured)
                  /\ inputHash' = hash
                  /\ pc' = "exposeV2"
                  /\ UNCHANGED result
             [] OTHER ->
                  /\ Step(cluster, <<Call("ObjectHash", "ok")>>)
                  /\ mapEvents' = mapEvents \cup MapEvents(instance.status.Hash, sh.ensured)
                  /\ inputHash' = hash
                  /\ pc' = "exposeV2"
                  /\ UNCHANGED <<instance, result>>
        /\ UNCHANGED <<before, configMapVars, stale>>

\* --------------------------------------------------------- reconcileInit

ExposePc == <<"exposeV2", "exposeV3">>

ExposeOp == <<"ExposeEndpointsV2", "ExposeEndpointsV3">>

KeystonePc == <<"ks1", "ks2">>

KeystoneOp == <<"KeystoneCreateOrPatchV2", "KeystoneCreateOrPatchV3">>

DeletePc == <<"ksDelete1", "ksDelete2">>

DeleteOp == <<"KeystoneDeleteV2", "KeystoneDeleteV3">>

\* A collaborator's "not ready yet" result: some non-empty ctrl.Result.
Pending(after) == [Requeue |-> (after = 0), RequeueAfter |-> after]

\* reconcileInit without its nil check of Status.APIEndpoints.
EndpointsGuardNone(i, m) == m

\* The nil check reconcileInit makes before it stores a facade's endpoints: V2's
\* store is guarded by "if instance.Status.APIEndpoints == nil", V3's is not.
EndpointsGuard(i, m) == IF i = 1 THEN EnsureMap(m) ELSE m

\* Only "if err != nil { return }": a pending result is dropped.
CallAbortsOnError(o) == o = "error"

\* "if err != nil { return } else if (ctrlResult != ctrl.Result{}) { return }":
\* an error and a pending result both end the pass.
CallAborts(o) == o # "ok"

\* The facade's endpoints stored before the exposure's outcome is looked at.
StoreEndpointsEarly(i, o, was) ==
    Put(EndpointsGuard(i, was), keystoneServices[i], EndpointsOf(keystoneServices[i]))

\* Status.APIEndpoints after the exposure of facade i answered o: the store
\* "instance.Status.APIEndpoints[facade] = apiEndpoints" is reached only past both
\* early returns.
StoreEndpoints(i, o, was) ==
    IF CallAborts(o) THEN was
    ELSE Put(EndpointsGuard(i, was), keystoneServices[i], EndpointsOf(keystoneServices[i]))

\* endpoint.ExposeEndpoints for facade i, then Status.APIEndpoints[facade] = urls.
reconcileInitExpose(i, o) ==
    LET was == instance.status.APIEndpoints
        ep == EndpointsGuard(i, was)
    IN  /\ pc = ExposePc[i]
        /\ Step(IF o = "error" THEN cluster ELSE [cluster EXCEPT !.exposed = TRUE],
                <<Call(ExposeOp[i], o)>>)
        /\ instance' = [instance EXCEPT !.status.APIEndpoints = StoreEndpoints(i, o, was)]
        /\ CASE ~CallAborts(o) ->
                  /\ mapEvents' = mapEvents \cup MapEvents(was, ep)
                  /\ pc' = IF i < Len(keystoneServices) THEN ExposePc[i + 1] ELSE "getSecretInit"
                  /\ UNCHANGED result
             [] o = "pending" ->
                  /\ Abort(Pending(0), NoErr)
                  /\ UNCHANGED mapEvents
             [] OTHER ->
                  /\ Abort(EmptyResult, CallErr(ExposeOp[i]))
                  /\ UNCHANGED mapEvents
        /\ UNCHANGED <<before, configMapVars, inputHash, stale>>

\* reconcileInit's own secret.GetSecret, then the nil check of Status.ServiceIDs.
reconcileInitGetSecret(o) ==
    LET was == instance.status.ServiceIDs
    IN  /\ pc = "getSecretInit"
        /\ Step(cluster, <<Call("GetSecretInit", SecretLookup(o))>>)
        /\ IF SecretLookup(o) = "ok"
           THEN /\ instance' = [instance EXCEPT !.status.ServiceIDs = EnsureMap(was)]
                /\ mapEvents' = mapEvents \cup MapEvents(was, EnsureMap(was))
                /\ pc' = KeystonePc[1]
                /\ UNCHANGED result
           ELSE /\ SecretAbort(SecretLookup(o))
                /\ UNCHANGED <<instance, mapEvents>>
        /\ UNCHANGED <<before, configMapVars, inputHash, stale>>

\* Every registration built with the first facade's endpoints.
RegistrationEndpointsFirst(st, i) == Lookup(st.APIEndpoints, keystoneServices[1])

\* KeystoneServiceSpec.APIEndpoints of facade i's registration:
\* instance.Status.APIEndpoints[ksSvc["name"]].
RegistrationEndpoints(st, i) == Lookup(st.APIEndpoints, keystoneServices[i])

\* ksSvcObj.CreateOrPatch for facade i with Status.APIEndpoints[facade], then
\* Status.ServiceIDs[facade] = ksSvcObj.GetServiceID().
reconcileInitKeystone(i, o) ==
    LET f == keystoneServices[i]
        eps == RegistrationEndpoints(instance.status, i)
        reg == [cluster EXCEPT !.keystone = (f :> eps) @@ @]
    IN  /\ pc = KeystonePc[i]
        /\ Step(IF o = "error" THEN cluster ELSE reg, <<Call(KeystoneOp[i], o)>>)
        /\ CASE ~CallAborts(o) ->
                  /\ instance' = [instance EXCEPT !.status.ServiceIDs = Put(@, f, ServiceIDOf(f))]
                  /\ mapEvents' = mapEvents
                        \cup MapEvents(instance.status.APIEndpoints, instance.status.APIEndpoints)
                        \cup MapEvents(instance.status.ServiceIDs, instance.status.ServiceIDs)
                  /\ pc' = IF i < Len(keystoneServices) THEN KeystonePc[i + 1] ELSE "update"
                  /\ UNCHANGED result
             [] o = "pending" ->
                  /\ Abort(Pending(KeystoneTimeout), NoErr)
                  /\ mapEvents' = mapEvents
                        \cup MapEvents(instance.status.APIEndpoints, instance.status.APIEndpoints)
                  /\ UNCHANGED instance
             [] OTHER ->
                  /\ Abort(EmptyResult, CallErr(KeystoneOp[i]))
                  /\ mapEvents' = mapEvents
                        \cup MapEvents(instance.status.APIEndpoints, instance.status.APIEndpoints)
                  /\ UNCHANGED instance
        /\ UNCHANGED <<before, configMapVars, inputHash, stale>>

\* ------------------------------------------- reconcileNormal: hooks, deployment

\* reconcileUpdate: a named stage that does nothing yet.
reconcileUpdate ==
    /\ pc = "update"
    /\ Step(cluster, <<Call("reconcileUpdate", "ok")>>)
    /\ pc' = "upgrade"
    /\ UNCHANGED <<instance, before, configMapVars, inputHash, result, stale, mapEvents>>

\* reconcileUpgrade: a named stage that does nothing yet.
reconcileUpgrade ==
    /\ pc = "upgrade"
    /\ Step(cluster, <<Call("reconcileUpgrade", "ok")>>)
    /\ pc' = "deployment"
    /\ UNCHANGED <<instance, before, configMapVars, inputHash, result, stale, mapEvents>>

\* The ready count read from a deployment object that was never refreshed.
ReadyReplicasNone(d) == 0

\* depl.GetDeployment().Status.ReadyReplicas.
ReadyReplicas(d) == d.ready

\* The ready count copied before the create-or-patch's outcome is looked at.
StoreReadyCountEarly(o, st, d) == ReadyReplicas(d)

\* Status.ReadyCount after the create-or-patch answered o: the assignment is
\* reached only past both early returns.
StoreReadyCount(o, st, d) == IF CallAborts(o) THEN st.ReadyCount ELSE ReadyReplicas(d)

\* depl.CreateOrPatch of the object rendered with inputHash, then
\* Status.ReadyCount = depl.GetDeployment().Status.ReadyReplicas.
reconcileNormalDeployment(o) ==
    LET applied == [cluster EXCEPT !.depl.applied = TRUE, !.depl.hash = inputHash]
    IN  /\ pc = "deployment"
        /\ Step(IF o = "error" THEN cluster ELSE applied, <<Call("DeploymentCreateOrPatch", o)>>)
        /\ instance' = [instance EXCEPT
                           !.status.ReadyCount = StoreReadyCount(o, instance.status, cluster.depl)]
        /\ CASE ~CallAborts(o) -> Abort(EmptyResult, NoErr)
             [] o = "pending" -> Abort(Pending(DeploymentTimeout), NoErr)
             [] OTHER -> Abort(EmptyResult, CallErr("DeploymentCreateOrPatch"))
        /\ UNCHANGED <<before, configMapVars, inputHash, stale, mapEvents>>

\* -------------------------------------------------------- reconcileDelete

\* The deregistration error logged and not returned.
DeleteAbortsNever(o) == FALSE

\* "err := ksSvcObj.Delete(ctx, helper); if err != nil { return ctrl.Result{}, err }".
DeleteAborts(o) == o # "ok"

\* ksSvcObj.Delete for facade i, built from Status.APIEndpoints[facade].
reconcileDeleteKeystone(i, o) ==
    LET f == keystoneServices[i]
        rest == [g \in (DOMAIN cluster.keystone) \ {f} |-> cluster.keystone[g]]
    IN  /\ pc = DeletePc[i]
        /\ Step(IF o = "ok" THEN [cluster EXCEPT !.keystone = rest] ELSE cluster,
                <<Call(DeleteOp[i], o)>>)
        /\ mapEvents' = mapEvents
              \cup MapEvents(instance.status.APIEndpoints, instance.status.APIEndpoints)
        /\ IF ~DeleteAborts(o)
           THEN /\ pc' = IF i < Len(keystoneServices) THEN DeletePc[i + 1] ELSE "removeFinalizer"
                /\ UNCHANGED result
           ELSE Abort(EmptyResult, CallErr(DeleteOp[i]))
        /\ UNCHANGED <<instance, before, configMapVars, inputHash, stale>>

\* What the object store answers to a write of the declared resource.
StoreAnswer(o) == IF ~cluster.res.exists THEN "notfound" ELSE o

\* The same with not-found returned like any other error.
DeleteUpdateReturnStrict(ans) ==
    IF ans = "ok" THEN Return(EmptyResult, NoErr) ELSE Return(EmptyResult, CallErr("Update"))

\* "if err := r.Update(ctx, instance); err != nil && !k8s_errors.IsNotFound(err)
\* { return ctrl.Result{}, err }; return ctrl.Result{}, nil".
DeleteUpdateReturn(ans) ==
    IF ans = "error" THEN Return(EmptyResult, CallErr("Update")) ELSE Return(EmptyResult, NoErr)

\* controllerutil.RemoveFinalizer, then r.Update; a not-found answer is success.
\* The object store drops an object whose deletion time is set once its last
\* finalizer is gone.
\* A not-found answer (o = "notfound") is that of a resource someone else let go
\* of under the pass: it is gone from the store then.
reconcileDeleteUpdate(o) ==
    /\ pc = "removeFinalizer"
    /\ o = "ok" => ~stale
    /\ Step(CASE StoreAnswer(o) = "ok" ->
                     [cluster EXCEPT !.res = IF @.deleting THEN Gone
                                             ELSE [@ EXCEPT !.finalizer = FALSE]]
              [] StoreAnswer(o) = "notfound" -> [cluster EXCEPT !.res = Gone]
              [] OTHER -> cluster,
            <<Call("Update", StoreAnswer(o))>>)
    /\ instance' = [instance EXCEPT !.finalizer = FALSE]
    /\ result' = DeleteUpdateReturn(StoreAnswer(o))
    /\ pc' = "defer"
    /\ UNCHANGED <<before, configMapVars, inputHash, stale, mapEvents>>

\* ------------------------------------------------- Reconcile: deferred patch

\* A deferred function that assigns the patch error to the named return value.
DeferredReturnPatch(r, out) ==
    IF out = "ok" THEN r ELSE Return(EmptyResult, CallErr("StatusPatch"))

\* What Reconcile returns once the deferred function ran with patch outcome out:
\* the deferred function logs its errors and assigns no return value.
DeferredReturn(r, out) == r

\* The deferred function: helper.SetAfter, and when the status differs from the
\* snapshot, r.Status().Patch with client.MergeFrom(before).  Errors are logged.
ReconcileDeferred(o) ==
    LET after == ToJSON(instance.status)
        changed == after # before
    IN  /\ pc = "defer"
        /\ ~changed => o = "ok"
        /\ IF changed
           THEN Step(IF StoreAnswer(o) = "ok"
                     THEN [cluster EXCEPT !.res.status = MergePatch(@, before, after)]
                     ELSE cluster,
                     <<Call("SetAfter", "ok"), Call("StatusPatch", StoreAnswer(o))>>)
           ELSE Step(cluster, <<Call("SetAfter", "ok")>>)
        /\ pc' = "done"
        /\ result' = DeferredReturn(result, IF changed THEN StoreAnswer(o) ELSE "ok")
        /\ UNCHANGED <<instance, before, configMapVars, inputHash, stale, mapEvents>>

\* The previous pass as the next one will remember it: a finished pass whose
\* status writes, if any, succeeded.
HistOf(t) ==
    IF ~hist.on THEN hist
    ELSE IF StatusFailed(t) THEN NoHist
    ELSE [on |-> TRUE, valid |-> TRUE, collab |-> Collab(t)]

\* Reconcile returns result to the framework; the pass's locals are gone.
ReconcileReturn ==
    /\ pc = "done"
    /\ pc' = "idle"
    /\ hist' = HistOf(trace)
    /\ instance' = NoInstance
    /\ before' = EmptyStatusJSON
    /\ configMapVars' = <<>>
    /\ inputHash' = {}
    /\ trace' = <<>>
    /\ result' = NoReturn
    /\ stale' = FALSE
    /\ mapEvents' = {}
    /\ UNCHANGED <<cluster, retries, others>>

\* The steps every pass shares and those of the normal path.
PassNormal ==
    \/ \E o \in {"ok", "error"} : ReconcileGet(o)
    \/ \E o \in {"ok", "error"} : ReconcileNewHelper(o)
    \/ \E o \in {"ok", "error"}, mode \in RefreshModes : reconcileNormalUpdate(o, mode)
    \/ \E o \in {"ok", "error"} : reconcileNormalGetSecret(o)
    \/ \E o \in {"ok", "error"} : generateServiceConfigMaps(o)
    \/ \E o \in {"ok", "error"} : reconcileNormalGetConfigMaps(o)
    \/ \E o \in {"ok", "error", "hashError"}, mode \in RefreshModes : createHashOfInputHashes(o, mode)
    \/ \E i \in DOMAIN keystoneServices, o \in {"ok", "pending", "error"} : reconcileInitExpose(i, o)
    \/ \E o \in {"ok", "error"} : reconcileInitGetSecret(o)
    \/ \E i \in DOMAIN keystoneServices, o \in {"ok", "pending", "error"} : reconcileInitKeystone(i, o)
    \/ reconcileUpdate
    \/ reconcileUpgrade
    \/ \E o \in {"ok", "pending", "error"} : reconcileNormalDeployment(o)
    \/ \E o \in {"ok", "error"} : ReconcileDeferred(o)
    \/ ReconcileReturn

\* The steps of the delete path.
PassDelete ==
    \/ \E i \in DOMAIN keystoneServices, o \in {"ok", "error"} : reconcileDeleteKeystone(i, o)
    \/ \E o \in {"ok", "notfound", "error"} : reconcileDeleteUpdate(o)

Next == Env \/ PassNormal \/ PassDelete

Spec == Init /\ [][Next]_vars

\* The same program with the previous pass remembered, and the environment
\* acting between passes only: two passes in succession.
InitIdem ==
    InitPass /\ hist = NoHist /\ retries = Unlimited /\ fleet = NoFleet /\ rendered = NoRender /\ watch = NoWatch

SpecIdem == InitIdem /\ [][Next]_vars

\* ------------------------------------------- re-invocation until success

\* A resource that is not being deleted, whose secret and parent config maps
\* exist and stay; only the deployment's ready count changes under the controller.
\* Every call succeeds eventually: all but MaxFailures of them.
InitLive ==
    /\ \E s \in 1..MaxContent : cluster = NewCluster(s, ParentConfigMaps)
    /\ InitLocals
    /\ hist = HistOff
    /\ retries = Limited(MaxFailures)
    /\ fleet = NoFleet
    /\ rendered = NoRender
    /\ watch = NoWatch

NextLive ==
    \/ PassNormal
    \/ \E n \in 0..MaxReplicas : SetReady(n)

\* The framework re-invokes Reconcile after every pass.
SpecLive == InitLive /\ [][NextLive]_vars /\ WF_vars(PassNormal)

\* The same resource, deleted at any moment, under a pass or between two; the
\* store answers every write of the delete path itself.
PassLiveDelete ==
    \/ PassNormal
    \/ \E i \in DOMAIN keystoneServices, o \in {"ok", "error"} : reconcileDeleteKeystone(i, o)
    \/ \E o \in {"ok", "error"} : reconcileDeleteUpdate(o)

NextLiveDelete == PassLiveDelete \/ DeleteResource

\* Reconcile is re-invoked after every pass, also once the resource is deleted.
SpecLiveDelete == InitLive /\ [][NextLiveDelete]_vars /\ WF_vars(PassLiveDelete)

\* ------------------------------------------- several declared resources

\* Resources are declared in 1..MaxNamespaces namespaces under 1..MaxNames names.
MaxNamespaces == 2

MaxNames == 2

\* cinder.ServiceName: the fixed name reconcileInit hands to ExposeEndpoints.
ServiceName == "cinder"

\* A declared resource: <<namespace, name>>.
Resources == (1..MaxNamespaces) \X (1..MaxNames)

\* A cluster object: kind, namespace, name.
Object(kind, ns, name) == <<kind, ns, name>>

\* The config map generateServiceConfigMaps names "<instance.Name>-config-data".
ServiceConfigMapShared(name) == <<ServiceName, "config-data">>

ServiceConfigMapName(name) == <<name, "config-data">>

\* The writing calls of a pass, in order, on the normal and on the delete path.
NormalWrites ==
    <<"Update", "EnsureConfigMaps", "StatusUpdate", "ExposeEndpointsV2", "ExposeEndpointsV3",
      "KeystoneCreateOrPatchV2", "KeystoneCreateOrPatchV3", "DeploymentCreateOrPatch",
      "StatusPatch">>

DeleteWrites == <<"KeystoneDeleteV2", "KeystoneDeleteV3", "Update", "StatusPatch">>

WritesOn(path) == IF path = "delete" THEN DeleteWrites ELSE NormalWrites

\* The facade a registration call is about.
FacadeOf(op) == IF op \in {"KeystoneCreateOrPatchV2", "KeystoneDeleteV2"} THEN "V2" ELSE "V3"

\* The objects call op writes in a pass of resource r: the resource itself; its
\* config map; the Service and Route of each scope, named from ServiceName in
\* the resource's namespace; the registration, named from the facade in the
\* resource's namespace; the rendered object, named like the resource.
WrittenBy(op, r) ==
    CASE op \in {"Update", "StatusUpdate", "StatusPatch"} ->
             {Object("CinderAPI", r[1], r[2])}
      [] op = "EnsureConfigMaps" ->
             {Object("ConfigMap", r[1], ServiceConfigMapName(r[2]))}
      [] op \in {"ExposeEndpointsV2", "ExposeEndpointsV3"} ->
             {Object(k, r[1], <<ServiceName, sc>>) : k \in {"Service", "Route"}, sc \in Scopes}
      [] op \in {"KeystoneCreateOrPatchV2", "KeystoneCreateOrPatchV3",
                 "KeystoneDeleteV2", "KeystoneDeleteV3"} ->
             {Object("KeystoneService", r[1], FacadeOf(op))}
      [] OTHER ->
             {Object("Deployment", r[1], r[2])}

\* What the passes of the several resources leave alone.
single == <<cluster, passVars, stale, hist, retries, rendered, watch>>

\* writers with resource r recorded as a writer of each of objs.
Record(writers, objs, r) ==
    [o \in (DOMAIN writers) \cup objs |->
        (IF o \in DOMAIN writers THEN writers[o] ELSE {})
        \cup (IF o \in objs THEN {r} ELSE {})]

\* The pass of the k-th resource makes its next writing call.
FleetWrite(k) ==
    LET a == fleet.at[k]
        ops == WritesOn(a.path)
    IN  /\ k \in DOMAIN fleet.res
        /\ a.i < Len(ops)
        /\ fleet' = [fleet EXCEPT
                        !.at[k].i = a.i + 1,
                        !.writers = Record(@, WrittenBy(ops[a.i + 1], fleet.res[k]), fleet.res[k])]
        /\ UNCHANGED single

\* The pass of the k-th resource ends, at whatever call it is, and the next one
\* starts on either path.
FleetReturn(k, path) ==
    /\ k \in DOMAIN fleet.res
    /\ fleet.at[k].i > 0
    /\ fleet' = [fleet EXCEPT !.at[k] = [path |-> path, i |-> 0]]
    /\ UNCHANGED single

\* Two different resources, no pass begun.
InitFleet ==
    /\ InitPass
    /\ hist = HistOff
    /\ retries = Unlimited
    /\ rendered = NoRender
    /\ watch = NoWatch
    /\ \E a \in Resources, b \in Resources :
          /\ a # b
          /\ fleet = [res |-> <<a, b>>,
                      at |-> [k \in 1..2 |-> [path |-> "normal", i |-> 0]],
                      writers |-> <<>>]

NextFleet ==
    \/ \E k \in 1..2 : FleetWrite(k)
    \/ \E k \in 1..2, path \in {"normal", "delete"} : FleetReturn(k, path)

SpecFleet == InitFleet /\ [][NextFleet]_vars

\* ------------------------------------------------------- the builder

\* A declared resource lists 0..MaxMounts extra mounts.
MaxMounts == 1

\* The builder is called up to MaxCalls times on one declared resource.
MaxCalls == 2

\* ServiceCommand; common.DebugCommand; cinder.CinderPublicPort.
ServiceCommand == "/usr/local/bin/kolla_set_configs && /usr/local/bin/kolla_start"

DebugCommand == "common.DebugCommand"

CinderPublicPort == "cinder.CinderPublicPort"

\* The fields of Spec the builder's probes, args and volumes depend on.
Specs ==
    [debug : BOOLEAN, tlsPublic : BOOLEAN, tlsInternal : BOOLEAN, caBundle : BOOLEAN,
     extraMounts : 0..MaxMounts]

\* The loop taking the public endpoint first.
TLSEndpointsPublicFirst == <<"public", "internal">>

\* The endpoints whose transport security the builder looks at, in loop order.
TLSEndpoints == <<"internal", "public">>

\* instance.Spec.TLS.API.Enabled(endpt), with either flag taken for the other's.
EnabledAny(spec, endpt) == spec.tlsPublic \/ spec.tlsInternal

\* instance.Spec.TLS.API.Enabled(endpt).
Enabled(spec, endpt) == IF endpt = "public" THEN spec.tlsPublic ELSE spec.tlsInternal

\* A probe's handlers: nil, or set.
NoExec == [set |-> FALSE, Command |-> <<>>]

NoHTTPGet == [set |-> FALSE, Path |-> "", Port |-> "", Scheme |-> ""]

\* &corev1.Probe{TimeoutSeconds: 5, PeriodSeconds: period, InitialDelaySeconds: 5}.
Probe(period) ==
    [TimeoutSeconds |-> 5, PeriodSeconds |-> period, InitialDelaySeconds |-> 5,
     Exec |-> NoExec, HTTPGet |-> NoHTTPGet]

\* The probes with the debug branch taken whatever the flag says.
ProbesDebugOnly(spec) ==
    [liveness |-> [Probe(3) EXCEPT !.Exec = [set |-> TRUE, Command |-> <<"/bin/true">>]],
     readiness |-> [Probe(5) EXCEPT !.Exec = [set |-> TRUE, Command |-> <<"/bin/true">>]]]

\* livenessProbe and readinessProbe after the "if instance.Spec.Debug.Service"
\* statement: one handler, shared by both probes.
Probes(spec) ==
    LET exec == [set |-> TRUE, Command |-> <<"/bin/true">>]
        http == [set |-> TRUE, Path |-> "/healthcheck", Port |-> CinderPublicPort,
                 Scheme |-> IF Enabled(spec, "public") THEN "HTTPS" ELSE ""]
    IN  IF spec.debug
        THEN [liveness |-> [Probe(3) EXCEPT !.Exec = exec],
              readiness |-> [Probe(5) EXCEPT !.Exec = exec]]
        ELSE [liveness |-> [Probe(3) EXCEPT !.HTTPGet = http],
              readiness |-> [Probe(5) EXCEPT !.HTTPGet = http]]

\* args after the same statement.
Args(spec) == <<"-c", IF spec.debug THEN DebugCommand ELSE ServiceCommand>>

\* The names of the extra mounts' entries.
ExtraNames == <<"extra1", "extra2", "extra3">>

\* GetVolumes / GetVolumeMounts: the base entries and one per extra mount.
GetVolumes(spec) == <<"base">> \o SubSeq(ExtraNames, 1, spec.extraMounts)

\* GetVolumeMounts(instance.Spec.ExtraMounts): the mounts of the base entries
\* and of each extra mount, each named by its volume.
GetVolumeMounts(spec) == <<"base">> \o SubSeq(ExtraNames, 1, spec.extraMounts)

\* "add CA cert if defined".
WithCaBundle(spec, vols) == IF spec.caBundle THEN Append(vols, "ca-bundle") ELSE vols

\* The loop over internal and public from its i-th round on: an enabled
\* endpoint's ToService is called; its error ends the builder, its service adds
\* one entry to the volumes and to the mounts.  tls gives ToService's outcome per
\* endpoint.
RECURSIVE TLSVolumes(_, _, _, _, _, _)
TLSVolumes(spec, tls, i, vols, mounts, consulted) ==
    IF i > Len(TLSEndpoints)
    THEN [err |-> FALSE, vols |-> vols, mounts |-> mounts, consulted |-> consulted]
    ELSE LET e == TLSEndpoints[i]
         IN  IF ~Enabled(spec, e) THEN TLSVolumes(spec, tls, i + 1, vols, mounts, consulted)
             ELSE IF tls[e] = "error"
                  THEN [err |-> TRUE, vols |-> <<>>, mounts |-> <<>>,
                        consulted |-> Append(consulted, e)]
                  ELSE TLSVolumes(spec, tls, i + 1, Append(vols, e), Append(mounts, e),
                                  Append(consulted, e))

\* What a failed builder returns: nil and the error.
NoStatefulSet(consulted) ==
    [err |-> TRUE, args |-> <<>>, liveness |-> Probe(0), readiness |-> Probe(0),
     volumes |-> <<>>, mounts |-> <<>>, consulted |-> consulted]

\* StatefulSet(instance, ...): the primary container's args and probes, the
\* volumes and the primary container's mounts; or the error of ToService.
StatefulSet(spec, tls) ==
    LET v == TLSVolumes(spec, tls, 1, WithCaBundle(spec, GetVolumes(spec)),
                        WithCaBundle(spec, GetVolumeMounts(spec)), <<>>)
    IN  IF v.err THEN NoStatefulSet(v.consulted)
        ELSE [err |-> FALSE,
              args |-> Args(spec),
              liveness |-> Probes(spec).liveness,
              readiness |-> Probes(spec).readiness,
              volumes |-> v.vols,
              mounts |-> v.mounts,
              consulted |-> v.consulted]

\* What the builder leaves alone.
unbuilt == <<cluster, passVars, stale, hist, retries, fleet, watch>>

\* One call of the builder on the declared resource.
StatefulSetCall(tls) ==
    /\ rendered.spec \in Specs
    /\ Len(rendered.calls) < MaxCalls
    /\ rendered' = [rendered EXCEPT !.calls =
                       Append(@, [tls |-> tls, set |-> StatefulSet(rendered.spec, tls)])]
    /\ UNCHANGED unbuilt

\* Any declared resource, the builder not called yet.
InitBuild ==
    /\ InitPass
    /\ hist = HistOff
    /\ retries = Unlimited
    /\ fleet = NoFleet
    /\ watch = NoWatch
    /\ \E spec \in Specs : rendered = [spec |-> spec, calls |-> <<>>]

NextBuild ==
    \E tls \in [{"internal", "public"} -> {"ok", "error"}] : StatefulSetCall(tls)

SpecBuild == InitBuild /\ [][NextBuild]_vars

\* ------------------------------------------------ the ConfigMap watch

\* How many resource names a namespace holds.
MaxWatched == 2

\* The namespaces of the watched cluster.
WatchNamespaces == {"ns1", "ns2"}

\* What cinder.GetOwningCinderName gives for a resource: the name of its owning
\* Cinder, or "" for a resource without one.
Owners == {"", "cinder", "other"}

\* The declared resources' keys.
WatchKeys == [ns : WatchNamespaces, name : 1..MaxWatched]

\* A ConfigMap's labels under the owner-name key: absent, or a value.
OwnerLabels == {[present |-> FALSE, value |-> ""]} \cup [present : {TRUE}, value : Owners]

\* The ConfigMap of an event: o.GetNamespace() and o.GetLabels().
ConfigMapObjects == [ns : WatchNamespaces, label : OwnerLabels]

\* r.Client.List without a namespace option: every declared resource.
ListEverywhere(apis, ns) == DOMAIN apis

\* r.Client.List(ctx, apis, client.InNamespace(o.GetNamespace())).
ListInNamespace(apis, ns) == {k \in DOMAIN apis : k.ns = ns}

\* The orders in which a List may hand back its items.
Orders(S) == {q \in [1..Cardinality(S) -> S] : \A i, j \in DOMAIN q : q[i] = q[j] => i = j}

\* cinder.GetOwningCinderName(&cr).
GetOwningCinderName(apis, cr) == apis[cr]

\* The loop over apis.Items from item i on: a request, carrying the event's
\* namespace and the item's name, appended for each item whose owning Cinder is l.
RECURSIVE MatchItems(_, _, _, _, _, _)
MatchItems(apis, items, i, l, ns, out) ==
    IF i > Len(items) THEN out
    ELSE MatchItems(apis, items, i + 1, l, ns,
                    IF l = GetOwningCinderName(apis, items[i])
                    THEN Append(out, [Namespace |-> ns, Name |-> items[i].name])
                    ELSE out)

\* configMapFn(o): nil when the list fails, otherwise the requests of the loop,
\* which runs only when the owner-name label is there.
configMapFn(apis, o, items, listed) ==
    IF ~listed THEN <<>>
    ELSE IF o.label.present THEN MatchItems(apis, items, 1, o.label.value, o.ns, <<>>)
    ELSE <<>>

\* What the watch leaves alone.
unwatched == <<cluster, passVars, stale, hist, retries, fleet, rendered>>

\* One ConfigMap event handed to configMapFn.
ConfigMapEvent(o, listed) ==
    /\ watch.on
    /\ \E items \in Orders(ListInNamespace(watch.apis, o.ns)) :
          watch' = [watch EXCEPT !.last =
                       <<[o |-> o, listed |-> listed,
                          out |-> configMapFn(watch.apis, o, items, listed)]>>]
    /\ UNCHANGED unwatched

\* Any set of declared resources, each with its owning Cinder; no event yet.
InitWatch ==
    /\ InitPass
    /\ hist = HistOff
    /\ retries = Unlimited
    /\ fleet = NoFleet
    /\ rendered = NoRender
    /\ \E K \in SUBSET WatchKeys : \E apis \in [K -> Owners] :
          watch = [on |-> TRUE, apis |-> apis, last |-> <<>>]

NextWatch == \E o \in ConfigMapObjects, listed \in BOOLEAN : ConfigMapEvent(o, listed)

SpecWatch == InitWatch /\ [][NextWatch]_vars

\* ------------------------------------------------------------ properties

\* C4: with the secret and both parent config maps in place, Reconcile re-invoked
\* after every pass and every call succeeding eventually, a pass completes with
\* the deployment applied, endpoints (three scopes each) and service ids recorded
\* for V2 and V3, and ReadyCount equal to the deployment's ready replicas; that
\* status is the stored one.
EventuallyConverged ==
    <>(/\ pc = "done"
       /\ Call("DeploymentCreateOrPatch", "ok") \in {trace[i] : i \in DOMAIN trace}
       /\ result = Return([Requeue |-> FALSE, RequeueAfter |-> 0], NoErr)
       /\ cluster.depl.applied
       /\ DOMAIN instance.status.APIEndpoints.kv = {"V2", "V3"}
       /\ \A f \in {"V2", "V3"} :
             DOMAIN instance.status.APIEndpoints.kv[f] = {"admin", "public", "internal"}
       /\ DOMAIN instance.status.ServiceIDs.kv = {"V2", "V3"}
       /\ instance.status.ReadyCount = cluster.depl.ready
       /\ cluster.res.status = ToJSON(instance.status))

\* C4 happens: a pass completed with one replica ready and counted.
ConvergedReady ==
    /\ pc = "done"
    /\ Call("DeploymentCreateOrPatch", "ok") \in {trace[i] : i \in DOMAIN trace}
    /\ cluster.depl.ready > 0
    /\ instance.status.ReadyCount = cluster.depl.ready
    /\ cluster.res.status.ReadyCount = cluster.depl.ready

\* C1: once secret.GetSecret in reconcileNormal finds no secret, the pass returns
\* RequeueAfter of exactly 10 seconds with an error naming the secret, and no step
\* follows the lookup but the deferred status patch.
SecretNotFoundRequeues ==
    \A i \in DOMAIN trace :
        trace[i] = Call("GetSecret", "notfound") =>
            /\ pc \in {"defer", "done"}
            /\ result = Return([Requeue |-> FALSE, RequeueAfter |-> 10],
                               Err("OpenStack secret not found", SecretName))
            /\ \A j \in DOMAIN trace : j > i => trace[j].op \in {"SetAfter", "StatusPatch"}

\* C1 happens: a pass ended on the missing secret.
SecretNotFoundPass ==
    /\ pc = "done"
    /\ Call("GetSecret", "notfound") \in {trace[i] : i \in DOMAIN trace}

\* C2 as stated: a pass on a resource with a deletion timestamp whose stored
\* status has no endpoint data makes no identity-service Delete call, removes the
\* finalizer and persists the resource.
DeleteWithoutEndpointsSkipsKeystone ==
    (/\ pc = "done"
     /\ Len(trace) >= 2
     /\ trace[2] = Call("NewHelper", "ok")
     /\ instance.deleting
     /\ before.APIEndpoints = <<>>)
    => (/\ OpSet(trace) \cap {"KeystoneDeleteV2", "KeystoneDeleteV3"} = {}
        /\ "Update" \in OpSet(trace))

\* C2's case happens: the delete path is entered with no endpoint data stored.
DeleteWithoutEndpoints ==
    /\ pc \in {"ksDelete1", "removeFinalizer"}
    /\ Len(trace) = 2
    /\ instance.deleting
    /\ cluster.res.status.APIEndpoints = <<>>

FetchFailureEndsPass ==
    /\ (Len(trace) >= 1 /\ trace[1].op = "Get" /\ trace[1].out = "notfound") =>
          /\ pc = "done"
          /\ Len(trace) = 1
          /\ result = Return([Requeue |-> FALSE, RequeueAfter |-> 0], NoErr)
          /\ ~cluster.res.exists
    /\ (Len(trace) >= 1 /\ trace[1].op = "Get" /\ trace[1].out = "error") =>
          /\ pc = "done"
          /\ Len(trace) = 1
          /\ result = Return([Requeue |-> FALSE, RequeueAfter |-> 0], CallErr("Get"))

\* C5 happens: a pass ended on a resource that is gone.
FetchNotFoundPass ==
    /\ pc = "done"
    /\ trace = <<Call("Get", "notfound")>>

\* C6 as stated: every finished pass, wherever it stopped, ran the status-persist
\* step exactly once and after its other steps (the deferred function counted as
\* the attempt, whether or not it found something to patch).
EveryPassPersistsOnce ==
    pc = "done" =>
        /\ Cardinality({i \in DOMAIN trace : trace[i].op = "SetAfter"}) = 1
        /\ \A i \in DOMAIN trace :
              trace[i].op = "SetAfter" =>
                  \A j \in DOMAIN trace : j > i => trace[j].op = "StatusPatch"

\* C6: in a pass that fetched the resource and built the helper, the deferred
\* step runs exactly once and after every other step; it issues the status
\* merge-patch, once and as the last call, exactly when the status differs from
\* the one observed at the start; whatever the patch answers, the pass returns
\* what it was about to return.  A pass that ends at the fetch or at the helper
\* has no deferred step.
DeferredPatchRunsLast ==
    /\ [](pc = "done" =>
            LET n == Len(trace)
                patches == {i \in DOMAIN trace : trace[i].op = "StatusPatch"}
                afters == {i \in DOMAIN trace : trace[i].op = "SetAfter"}
            IN  IF n >= 2 /\ trace[2] = Call("NewHelper", "ok")
                THEN /\ Cardinality(afters) = 1
                     /\ patches \subseteq {n}
                     /\ afters = IF patches = {} THEN {n} ELSE {n - 1}
                     /\ (patches # {}) <=> (ToJSON(instance.status) # before)
                ELSE patches = {} /\ afters = {})
    /\ [][pc = "defer" => result' = result]_vars

\* C6 happens: a pass returned its error although its status patch failed.
PatchFailedPass ==
    /\ pc = "done"
    /\ trace[Len(trace)] = Call("StatusPatch", "error")
    /\ result.err # NoErr

\* C7: once a deregistration call of reconcileDelete fails the pass returns that
\* error, makes no further call but the deferred patch (no V3 deregistration after
\* a V2 failure, no Update), and the finalizer stays on the stored resource.
DeregistrationFailureKeepsFinalizer ==
    \A i \in DOMAIN trace :
        (trace[i].op \in {"KeystoneDeleteV2", "KeystoneDeleteV3"} /\ trace[i].out = "error") =>
            /\ pc \in {"defer", "done"}
            /\ result = Return([Requeue |-> FALSE, RequeueAfter |-> 0], CallErr(trace[i].op))
            /\ \A j \in DOMAIN trace : j > i => trace[j].op \in {"SetAfter", "StatusPatch"}
            /\ "Update" \notin OpSet(trace)
            /\ cluster.res.exists /\ cluster.res.finalizer /\ instance.finalizer

\* C7 happens: a delete pass ended on a failed V2 deregistration.
DeregistrationFailedPass ==
    /\ pc = "done"
    /\ Call("KeystoneDeleteV2", "error") \in {trace[i] : i \in DOMAIN trace}

\* C8: on the normal path the Update that persists the finalizer is the first
\* call after the helper is built; if it fails the pass returns its error and
\* makes no further call but the deferred patch; if it succeeds the stored
\* resource carries the finalizer for the rest of the pass, however it ends.
FinalizerPersistedFirst ==
    (Len(trace) >= 3 /\ trace[2] = Call("NewHelper", "ok") /\ ~instance.deleting) =>
        /\ trace[3].op = "Update"
        /\ \A j \in DOMAIN trace : j > 3 => trace[j].op # "Update"
        /\ trace[3].out = "error" =>
              /\ result = Return([Requeue |-> FALSE, RequeueAfter |-> 0], CallErr("Update"))
              /\ \A j \in DOMAIN trace : j > 3 => trace[j].op \in {"SetAfter", "StatusPatch"}
        /\ trace[3].out = "ok" => cluster.res.exists /\ cluster.res.finalizer

\* C8 happens: a pass that persisted the finalizer ended on a later failure.
FinalizerKeptAfterFailure ==
    /\ pc = "done"
    /\ Len(trace) >= 4
    /\ trace[3] = Call("Update", "ok")
    /\ result.err # NoErr
    /\ cluster.res.finalizer

\* C9: the calls of a normal-path pass follow the fixed order Update, secret,
\* service config map, parent config maps, input hash, endpoints V2 and V3,
\* registration V2 and V3, update hook, upgrade hook, deployment; a step that
\* returns an error or a non-empty result is followed by no step but the
\* deferred patch, and the pass returns that step's result.
PipelineOrderFailFast ==
    LET order == <<"Update", "GetSecret", "EnsureConfigMaps", "GetConfigMaps", "ObjectHash",
                   "ExposeEndpointsV2", "ExposeEndpointsV3",
                   "KeystoneCreateOrPatchV2", "KeystoneCreateOrPatchV3",
                   "reconcileUpdate", "reconcileUpgrade", "DeploymentCreateOrPatch">>
        steps == SelectSeq(Ops(trace), LAMBDA op : op \in {order[k] : k \in DOMAIN order})
        swallowed == {"EnsureConfigMaps", "StatusPatch"}
    IN  (Len(trace) >= 2 /\ trace[2] = Call("NewHelper", "ok") /\ ~instance.deleting) =>
            /\ IsPrefix(steps, order)
            /\ pc \in {"defer", "done"} \/ Len(steps) < Len(order)
            /\ \A i \in DOMAIN trace :
                  (trace[i].out # "ok" /\ trace[i].op \notin swallowed) =>
                      /\ pc \in {"defer", "done"}
                      /\ \A j \in DOMAIN trace : j > i => trace[j].op \in {"SetAfter", "StatusPatch"}
                      /\ trace[i].out = "error" =>
                            result = Return([Requeue |-> FALSE, RequeueAfter |-> 0],
                                            CallErr(IF trace[i].op = "GetSecretInit"
                                                    THEN "GetSecret" ELSE trace[i].op))
                      /\ trace[i].out = "pending" =>
                            /\ result.err = NoErr
                            /\ result.res # [Requeue |-> FALSE, RequeueAfter |-> 0]
                      /\ trace[i].out = "notfound" =>
                            /\ result.err # NoErr
                            /\ result.res = [Requeue |-> FALSE, RequeueAfter |-> 10]

\* C9 happens: a pass stopped at a registration that asked for a retry, after the
\* nine steps before it.
PipelineStoppedAtRegistration ==
    /\ pc = "done"
    /\ Len(trace) >= 12
    /\ trace[3].op = "Update"
    /\ Call("KeystoneCreateOrPatchV3", "pending") \in {trace[i] : i \in DOMAIN trace}
    /\ result.res.RequeueAfter = 10

\* C10: no status map is nil where a pass reads or writes it, none that was
\* present is made anew, and the entries a map held at the start of the pass are
\* in it at every later point of the pass.
StatusMapsNeverNil ==
    /\ mapEvents = {}
    /\ (Len(trace) >= 2 /\ trace[2] = Call("NewHelper", "ok")) =>
          /\ DOMAIN before.Hash \subseteq DOMAIN instance.status.Hash.kv
          /\ DOMAIN before.APIEndpoints \subseteq DOMAIN instance.status.APIEndpoints.kv
          /\ DOMAIN before.ServiceIDs \subseteq DOMAIN instance.status.ServiceIDs.kv
          /\ \A f \in DOMAIN before.APIEndpoints :
                instance.status.APIEndpoints.kv[f] = before.APIEndpoints[f]

\* C10 happens: the Update's answer left Status.ServiceIDs nil in a pass that
\* had endpoints from the start, right before reconcileInit checks it.
ServiceIDsNilBeforeCheck ==
    /\ pc = "getSecretInit"
    /\ before.APIEndpoints # <<>>
    /\ ~instance.status.ServiceIDs.present

\* C11 as stated: whatever the interleaving of the passes of two different
\* resources, no object is the target of a write of both.
NoObjectWrittenByBoth ==
    \A o \in DOMAIN fleet.writers : Cardinality(fleet.writers[o]) <= 1

\* C11: the passes of two different resources in different namespaces write no
\* common object; those of two resources in one namespace write, each, its own
\* declared resource, service config map and deployment, and both direct their
\* writes at the objects named without the resource's name: the exposed Service
\* and Route of each scope and the two identity-service registrations.
OnlyFixedNamesShared ==
    \A o \in DOMAIN fleet.writers :
        /\ Cardinality(fleet.writers[o]) > 1 =>
              /\ fleet.res[1][1] = fleet.res[2][1]
              /\ o[1] \in {"Service", "Route", "KeystoneService"}
        /\ (o[1] \in {"Service", "Route", "KeystoneService"}
            /\ fleet.res[1][1] = fleet.res[2][1]
            /\ \A k \in 1..2 : fleet.at[k] = [path |-> "normal", i |-> Len(NormalWrites)])
           => fleet.writers[o] = {fleet.res[1], fleet.res[2]}

\* C11 happens: two resources of one namespace both ran a whole normal pass.
TwoPassesInOneNamespace ==
    /\ fleet.res # <<>>
    /\ fleet.res[1][1] = fleet.res[2][1]
    /\ \A k \in 1..2 : fleet.at[k] = [path |-> "normal", i |-> Len(NormalWrites)]
    /\ Cardinality({o \in DOMAIN fleet.writers : o[1] = "ConfigMap"}) = 2
    /\ Cardinality({o \in DOMAIN fleet.writers : o[1] = "Deployment"}) = 2

\* C12: in every object the builder renders, with Debug.Service off both probes
\* are an HTTP GET of /healthcheck on the public port with no exec action and the
\* primary container's args run the service command; with Debug.Service on both
\* probes are the exec check /bin/true with no HTTP action and the args run the
\* debug keep-alive command.
ProbesFollowDebug ==
    \A i \in DOMAIN rendered.calls :
        LET set == rendered.calls[i].set
        IN  ~set.err =>
              \A p \in {set.liveness, set.readiness} :
                  IF rendered.spec.debug
                  THEN /\ p.Exec = [set |-> TRUE, Command |-> <<"/bin/true">>]
                       /\ ~p.HTTPGet.set
                       /\ set.args = <<"-c", DebugCommand>>
                  ELSE /\ p.HTTPGet.set
                       /\ p.HTTPGet.Path = "/healthcheck"
                       /\ p.HTTPGet.Port = CinderPublicPort
                       /\ ~p.Exec.set
                       /\ set.args = <<"-c", ServiceCommand>>

\* C12 happens: the builder rendered a resource with debug on and public TLS.
RenderedDebug ==
    /\ rendered.calls # <<>>
    /\ rendered.spec.debug /\ rendered.spec.tlsPublic
    /\ ~rendered.calls[1].set.err

\* C13 as stated: for every combination of the debug and TLS flags the rendered
\* probes' scheme is HTTPS exactly when public TLS is enabled.
SchemeFollowsPublicTLS ==
    \A i \in DOMAIN rendered.calls :
        LET set == rendered.calls[i].set
        IN  ~set.err =>
              \A p \in {set.liveness, set.readiness} :
                  (p.HTTPGet.Scheme = "HTTPS") <=> rendered.spec.tlsPublic

\* C13: with debug off the rendered probes' scheme is HTTPS exactly when public
\* TLS is enabled, whatever internal TLS is; with debug on the probes have no
\* HTTP action and so no scheme, whatever the TLS flags are.
SchemeFollowsPublicTLSUnlessDebug ==
    \A i \in DOMAIN rendered.calls :
        LET set == rendered.calls[i].set
        IN  ~set.err =>
              \A p \in {set.liveness, set.readiness} :
                  IF rendered.spec.debug
                  THEN p.HTTPGet = NoHTTPGet
                  ELSE /\ p.HTTPGet.set
                       /\ (p.HTTPGet.Scheme = "HTTPS") <=> rendered.spec.tlsPublic
                       /\ (p.HTTPGet.Scheme = "") <=> ~rendered.spec.tlsPublic

\* C13 happens: rendered with debug off, internal TLS on and public TLS off.
RenderedInternalTLSOnly ==
    /\ rendered.calls # <<>>
    /\ ~rendered.spec.debug /\ rendered.spec.tlsInternal /\ ~rendered.spec.tlsPublic
    /\ ~rendered.calls[1].set.err
    /\ rendered.calls[1].set.liveness.HTTPGet.Scheme = ""

\* C14: in a delete pass whose deregistrations of V2 and V3 both succeeded the
\* finalizer is removed and the resource persisted with Update; when the store
\* accepts the Update or answers not-found the pass returns an empty result and
\* no error and the store holds no finalizer of the resource; when the Update
\* fails otherwise the pass returns that error.
DeleteRemovesFinalizer ==
    (/\ pc \in {"defer", "done"}
     /\ Call("KeystoneDeleteV2", "ok") \in {trace[i] : i \in DOMAIN trace}
     /\ Call("KeystoneDeleteV3", "ok") \in {trace[i] : i \in DOMAIN trace})
    => /\ Len(trace) >= 5
       /\ trace[5].op = "Update"
       /\ ~instance.finalizer
       /\ trace[5].out \in {"ok", "notfound"} =>
             /\ result = Return([Requeue |-> FALSE, RequeueAfter |-> 0], NoErr)
             /\ ~cluster.res.finalizer
       /\ trace[5].out = "error" =>
             /\ result = Return([Requeue |-> FALSE, RequeueAfter |-> 0], CallErr("Update"))
             /\ cluster.res.finalizer

\* C14 happens: a delete pass ended on an Update answered not-found.
DeleteUpdateNotFoundPass ==
    /\ pc = "done"
    /\ Len(trace) >= 5
    /\ trace[3] = Call("KeystoneDeleteV2", "ok")
    /\ trace[5] = Call("Update", "notfound")

\* C15: a failed materialization of the service config map is not surfaced: the
\* pass neither returns that error nor stops there, its next call is the parent
\* config-map check, and what it returns in the end is another step's result.
MaterializationFailureSwallowed ==
    \A i \in DOMAIN trace :
        trace[i] = Call("EnsureConfigMaps", "error") =>
            /\ result.err # CallErr("EnsureConfigMaps")
            /\ IF Len(trace) = i
               THEN pc = "getCMs" /\ result = Return([Requeue |-> FALSE, RequeueAfter |-> 0], NoErr)
               ELSE trace[i + 1].op = "GetConfigMaps"
            /\ pc \in {"defer", "done"} =>
                  \E j \in DOMAIN trace :
                      /\ j > i
                      /\ trace[j].op \notin {"SetAfter", "StatusPatch"}
                      /\ (trace[j].out = "ok") <=>
                            (result = Return([Requeue |-> FALSE, RequeueAfter |-> 0], NoErr))

\* C15 happens: a pass whose materialization failed went on to apply the
\* deployment and returned success.
MaterializationFailedPassCompleted ==
    /\ pc = "done"
    /\ Call("EnsureConfigMaps", "error") \in {trace[i] : i \in DOMAIN trace}
    /\ Call("DeploymentCreateOrPatch", "ok") \in {trace[i] : i \in DOMAIN trace}
    /\ result = Return(EmptyResult, NoErr)

\* C16: when <parent>-scripts or <parent>-config-data is missing the pass returns
\* RequeueAfter of exactly 10 seconds with an error naming the parent and makes
\* no call after the lookup but the deferred patch; any other lookup error is
\* returned with an empty result; when both exist their content hashes are among
\* the inputs and in the aggregate hash computed from them.
ParentConfigMapsChecked ==
    \A i \in DOMAIN trace :
        trace[i].op = "GetConfigMaps" =>
            LET both == {"cinder-scripts", "cinder-config-data"}
            IN  /\ trace[i].out = "notfound" =>
                      /\ ~(both \subseteq cluster.parentCMs)
                      /\ pc \in {"defer", "done"}
                      /\ result = Return([Requeue |-> FALSE, RequeueAfter |-> 10],
                                         Err("Could not find all config maps for parent Cinder CR",
                                             "cinder"))
                      /\ \A j \in DOMAIN trace : j > i => trace[j].op \in {"SetAfter", "StatusPatch"}
                /\ trace[i].out = "error" =>
                      /\ pc \in {"defer", "done"}
                      /\ result = Return([Requeue |-> FALSE, RequeueAfter |-> 0],
                                         CallErr("GetConfigMaps"))
                      /\ \A j \in DOMAIN trace : j > i => trace[j].op \in {"SetAfter", "StatusPatch"}
                /\ trace[i].out = "ok" =>
                      /\ both \subseteq cluster.parentCMs
                      /\ \A n \in both :
                            /\ n \in DOMAIN configMapVars
                            /\ configMapVars[n] = ContentHash(n, 1)
                            /\ inputHash # {} => <<n, ContentHash(n, 1)>> \in inputHash

\* C16 happens: a pass ended on the lookup with one of the two config maps there.
OneParentConfigMapMissing ==
    /\ pc = "done"
    /\ Call("GetConfigMaps", "notfound") \in {trace[i] : i \in DOMAIN trace}
    /\ Cardinality(cluster.parentCMs) = 1

\* C17: the step that computes the aggregate hash issues a status update if and
\* only if the hash differs from Status.Hash under the input-hash key; a successful
\* update leaves the new hash in the stored status before any endpoint is exposed;
\* with an equal hash Status.Hash and the stored object stay as they are; a failed
\* update ends the pass with that error.
HashWrittenIffChanged ==
    [][(pc = "hash" /\ pc' # "hash" /\ trace'[Len(trace) + 1] = Call("ObjectHash", "ok")) =>
          LET hash   == {<<n, configMapVars[n]>> : n \in DOMAIN configMapVars}
              stored == instance.status.Hash
              differs == "input" \notin DOMAIN stored.kv \/ stored.kv["input"] # hash
              issued == {trace'[i] : i \in (Len(trace) + 1)..Len(trace')}
                            \ {Call("ObjectHash", "ok")}
          IN  /\ differs <=> issued # {}
              /\ issued \subseteq {Call("StatusUpdate", "ok"), Call("StatusUpdate", "error")}
              /\ Call("StatusUpdate", "ok") \in issued =>
                    /\ cluster'.res.status.Hash["input"] = hash
                    /\ pc' = "exposeV2"
                    /\ \A i \in DOMAIN trace' : trace'[i].op \notin {"ExposeEndpointsV2", "ExposeEndpointsV3"}
              /\ ~differs =>
                    /\ instance'.status.Hash = stored
                    /\ cluster' = cluster
                    /\ pc' = "exposeV2"
              /\ Call("StatusUpdate", "error") \in issued =>
                    /\ pc' = "defer"
                    /\ result' = Return([Requeue |-> FALSE, RequeueAfter |-> 0], CallErr("StatusUpdate"))
                    /\ cluster' = cluster]_vars

\* C17 happens: a pass replaced a stored aggregate hash by a different one.
StoredHashReplaced ==
    /\ pc = "exposeV2"
    /\ Len(trace) > 0
    /\ trace[Len(trace)] = Call("StatusUpdate", "ok")
    /\ "input" \in DOMAIN before.Hash
    /\ before.Hash["input"] # inputHash
    /\ cluster.res.status.Hash["input"] = inputHash

\* C18: Status.APIEndpoints[facade] is written only after that facade's exposure
\* succeeded with an empty result; an exposure that fails or is pending ends the
\* pass with that result, leaves the facade's entry (in memory and stored) as it
\* was when the pass began, and no registration call is made in that pass.
EndpointsStoredOnlyAfterExposure ==
    \A i \in 1..2 :
        LET f == keystoneServices[i]
            ops == {trace[j] : j \in DOMAIN trace}
            entry(kv) == IF f \in DOMAIN kv THEN kv[f] ELSE <<>>
        IN  /\ (Call("NewHelper", "ok") \in ops /\ Call(ExposeOp[i], "ok") \notin ops) =>
                  /\ entry(instance.status.APIEndpoints.kv) = entry(before.APIEndpoints)
                  /\ cluster.res # Gone => entry(cluster.res.status.APIEndpoints) = entry(before.APIEndpoints)
            /\ (Call(ExposeOp[i], "ok") \in ops /\ pc # "done") =>
                  entry(instance.status.APIEndpoints.kv) = [s \in {"admin", "public", "internal"} |-> <<s, f>>]
            /\ \A o \in {"error", "pending"} :
                  Call(ExposeOp[i], o) \in ops =>
                      /\ pc \in {"defer", "done"}
                      /\ result = IF o = "pending"
                                  THEN Return(Pending(0), NoErr)
                                  ELSE Return([Requeue |-> FALSE, RequeueAfter |-> 0], CallErr(ExposeOp[i]))
                      /\ \A c \in ops : c.op \notin {"GetSecretInit", "KeystoneCreateOrPatchV2",
                                                     "KeystoneCreateOrPatchV3", "DeploymentCreateOrPatch"}

\* C18 happens: a first pass over a fresh resource ended on a pending V3 exposure,
\* V2's endpoints stored and V3's not.
ExposureV3PendingPass ==
    /\ pc = "done"
    /\ Call("ExposeEndpointsV3", "pending") \in {trace[j] : j \in DOMAIN trace}
    /\ cluster.res # Gone
    /\ DOMAIN cluster.res.status.APIEndpoints = {"V2"}

\* C19: the registrations are created-or-patched V2 first, V3 right after a
\* successful V2; each registration carries the endpoints held in
\* Status.APIEndpoints under its own facade; Status.ServiceIDs[facade] is written
\* only after that facade's create-or-patch succeeded with an empty result; a
\* failed or pending V2 registration leaves no V3 registration and no deployment
\* call in the pass.
RegistrationsInOrder ==
    LET ops == {trace[j] : j \in DOMAIN trace}
    IN  /\ \A j \in DOMAIN trace :
              trace[j].op = "KeystoneCreateOrPatchV3" =>
                  j > 1 /\ trace[j - 1] = Call("KeystoneCreateOrPatchV2", "ok")
        /\ \A i \in 1..2 :
              LET f == keystoneServices[i]
                  entry(kv) == IF f \in DOMAIN kv THEN kv[f] ELSE <<>>
              IN  /\ \A o \in {"ok", "pending"} :
                        Call(KeystoneOp[i], o) \in ops =>
                            /\ cluster.keystone[f] = entry(instance.status.APIEndpoints.kv)
                            /\ cluster.keystone[f] = [s \in {"admin", "public", "internal"} |-> <<s, f>>]
                  /\ (Call("NewHelper", "ok") \in ops /\ Call(KeystoneOp[i], "ok") \notin ops) =>
                        entry(instance.status.ServiceIDs.kv) = entry(before.ServiceIDs)
                  /\ Call(KeystoneOp[i], "ok") \in ops =>
                        entry(instance.status.ServiceIDs.kv) = <<"id", f>>
                  /\ \A o \in {"error", "pending"} :
                        Call(KeystoneOp[i], o) \in ops =>
                            /\ pc \in {"defer", "done"}
                            /\ result = IF o = "pending"
                                        THEN Return([Requeue |-> FALSE, RequeueAfter |-> 10], NoErr)
                                        ELSE Return([Requeue |-> FALSE, RequeueAfter |-> 0], CallErr(KeystoneOp[i]))
                            /\ \A c \in ops : c.op # "DeploymentCreateOrPatch"
                            /\ i = 1 => \A c \in ops : c.op # "KeystoneCreateOrPatchV3"

\* C19 happens: a pass registered V2, failed to register V3 and ended with only
\* V2's service id stored.
RegistrationV3FailedPass ==
    /\ pc = "done"
    /\ Call("KeystoneCreateOrPatchV2", "ok") \in {trace[j] : j \in DOMAIN trace}
    /\ Call("KeystoneCreateOrPatchV3", "error") \in {trace[j] : j \in DOMAIN trace}
    /\ cluster.res # Gone
    /\ DOMAIN cluster.res.status.ServiceIDs = {"V2"}
    /\ "V2" \in DOMAIN cluster.keystone

\* C20: Status.ReadyCount is assigned only when the deployment's create-or-patch
\* succeeded with an empty result, and then holds the deployment's ready replicas;
\* in a pass without that success, ended earlier or on a failed or pending
\* create-or-patch, Status.ReadyCount stays, in memory and stored, what the pass
\* found.
ReadyCountOnlyOnSuccess ==
    LET ops == {trace[j] : j \in DOMAIN trace}
    IN  /\ (Call("NewHelper", "ok") \in ops /\ Call("DeploymentCreateOrPatch", "ok") \notin ops) =>
              /\ instance.status.ReadyCount = before.ReadyCount
              /\ cluster.res # Gone => cluster.res.status.ReadyCount = before.ReadyCount
        /\ (pc = "defer" /\ Call("DeploymentCreateOrPatch", "ok") \in ops) =>
              /\ instance.status.ReadyCount = cluster.depl.ready
              /\ result = Return([Requeue |-> FALSE, RequeueAfter |-> 0], NoErr)
        /\ (pc = "done" /\ Call("DeploymentCreateOrPatch", "ok") \in ops
                /\ Call("StatusPatch", "ok") \in ops /\ cluster.res # Gone) =>
              cluster.res.status.ReadyCount = instance.status.ReadyCount
        /\ \A o \in {"error", "pending"} :
              Call("DeploymentCreateOrPatch", o) \in ops =>
                  /\ pc \in {"defer", "done"}
                  /\ result = IF o = "pending"
                              THEN Return([Requeue |-> FALSE, RequeueAfter |-> 5], NoErr)
                              ELSE Return([Requeue |-> FALSE, RequeueAfter |-> 0],
                                          CallErr("DeploymentCreateOrPatch"))

\* C20 happens: a successful pass copied a ready count of 1 over a stored 0.
ReadyCountCopied ==
    /\ pc = "done"
    /\ Call("DeploymentCreateOrPatch", "ok") \in {trace[j] : j \in DOMAIN trace}
    /\ before.ReadyCount = 0
    /\ cluster.res # Gone
    /\ cluster.res.status.ReadyCount = 1
    /\ cluster.depl.ready = 1

\* C21: for every ConfigMap event the mapping function returns exactly one
\* request for each declared resource of the event's namespace whose owning
\* Cinder's name equals the ConfigMap's owner label, and no other request; it
\* returns none when the label is absent, when no resource matches or when the
\* list fails; and it leaves the declared resources and the cluster as they are.
WatchMapsOwnedResources ==
    /\ [](\A i \in DOMAIN watch.last :
            LET e == watch.last[i]
                matching == {k \in DOMAIN watch.apis :
                                /\ k.ns = e.o.ns
                                /\ e.o.label.present
                                /\ watch.apis[k] = e.o.label.value}
                wanted == {[Namespace |-> k.ns, Name |-> k.name] : k \in matching}
            IN  /\ e.listed =>
                      /\ {e.out[j] : j \in DOMAIN e.out} = wanted
                      /\ Len(e.out) = Cardinality(wanted)
                /\ (~e.listed \/ ~e.o.label.present \/ matching = {}) => e.out = <<>>)
    /\ [][watch'.apis = watch.apis /\ cluster' = cluster]_vars

\* C21 happens: an event mapped to two requests while a third resource, in the
\* other namespace and with the same owner, got none.
TwoRequestsForOneEvent ==
    /\ watch.last # <<>>
    /\ Len(watch.last[1].out) = 2
    /\ \E k \in DOMAIN watch.apis :
          /\ k.ns # watch.last[1].o.ns
          /\ watch.apis[k] = watch.last[1].o.label.value

\* C22: the rendered volumes and the primary container's mounts are, in this
\* order, the base entries with the extra mounts', the CA-bundle entry exactly
\* when a CA-bundle secret is named, the internal endpoint's TLS entry exactly
\* when internal TLS is enabled and the public endpoint's exactly when public TLS
\* is enabled; the builder fails, returning no object, exactly when rendering the
\* TLS service of an enabled endpoint fails, and consults no disabled endpoint.
VolumesConcatenated ==
    \A i \in DOMAIN rendered.calls :
        LET set == rendered.calls[i].set
            tls == rendered.calls[i].tls
            spec == rendered.spec
            expected == <<"base">>
                        \o SubSeq(<<"extra1", "extra2", "extra3">>, 1, spec.extraMounts)
                        \o (IF spec.caBundle THEN <<"ca-bundle">> ELSE <<>>)
                        \o (IF spec.tlsInternal THEN <<"internal">> ELSE <<>>)
                        \o (IF spec.tlsPublic THEN <<"public">> ELSE <<>>)
            failing == \/ spec.tlsInternal /\ tls["internal"] = "error"
                       \/ spec.tlsPublic /\ tls["public"] = "error"
        IN  /\ set.err <=> failing
            /\ ~set.err => set.volumes = expected /\ set.mounts = expected
            /\ set.err => set.volumes = <<>> /\ set.mounts = <<>> /\ set.args = <<>>
            /\ \A j \in DOMAIN set.consulted :
                  /\ set.consulted[j] = "internal" => spec.tlsInternal
                  /\ set.consulted[j] = "public" => spec.tlsPublic

\* C22 happens: a resource with one extra mount, a CA bundle, both endpoints'
\* TLS enabled, rendered with all four kinds of entries.
RenderedAllVolumes ==
    /\ rendered.calls # <<>>
    /\ rendered.spec.caBundle /\ rendered.spec.tlsInternal /\ rendered.spec.tlsPublic
    /\ rendered.spec.extraMounts = 1
    /\ ~rendered.calls[1].set.err
    /\ rendered.calls[1].set.volumes = <<"base", "extra1", "ca-bundle", "internal", "public">>

\* C23: a step that exposes an endpoint, creates or patches a registration or
\* applies the deployment is taken only while the stored resource exists and
\* carries the finalizer; and while a registration made for the resource is still
\* there, the resource has not left the object store.
NothingCreatedWithoutFinalizer ==
    /\ [](DOMAIN cluster.keystone # {} => cluster.res.exists /\ cluster.res.finalizer)
    /\ [][(\/ ~cluster.exposed /\ cluster'.exposed
           \/ ~(DOMAIN cluster'.keystone \subseteq DOMAIN cluster.keystone)
           \/ ~cluster.depl.applied /\ cluster'.depl.applied
           \/ /\ pc \in {"exposeV2", "exposeV3", "ks1", "ks2", "deployment"}
              /\ pc' # pc
              /\ trace'[Len(trace')].out # "error")
          => /\ cluster.res.exists /\ cluster.res.finalizer
             /\ cluster'.res.exists /\ cluster'.res.finalizer]_vars

\* C23 happens: the resource was deleted under a pass that had persisted the
\* finalizer; the pass registered V2 all the same, and the resource is held.
RegisteredWhileDeleting ==
    /\ pc = "done"
    /\ Call("KeystoneCreateOrPatchV2", "ok") \in {trace[j] : j \in DOMAIN trace}
    /\ cluster.res.exists /\ cluster.res.deleting /\ cluster.res.finalizer
    /\ "V2" \in DOMAIN cluster.keystone

\* C24: once the stored resource carries a deletion timestamp, with Reconcile
\* re-invoked after every pass and every call succeeding eventually, a delete pass
\* deregisters V2 and V3, removes the finalizer and returns an empty result and
\* no error; and a pass that fetched the resource with its deletion timestamp
\* makes none of the normal path's calls and never stores a finalizer the
\* resource did not have.
DeletedResourceLetGo ==
    /\ (cluster.res.exists /\ cluster.res.deleting)
          ~> (/\ pc = "done"
              /\ instance.deleting
              /\ Len(trace) >= 5
              /\ trace[3] = Call("KeystoneDeleteV2", "ok")
              /\ trace[4] = Call("KeystoneDeleteV3", "ok")
              /\ trace[5] = Call("Update", "ok")
              /\ result = Return([Requeue |-> FALSE, RequeueAfter |-> 0], NoErr)
              /\ ~cluster.res.exists
              /\ DOMAIN cluster.keystone = {})
    /\ [](instance.deleting =>
            /\ \A i \in DOMAIN trace :
                  /\ trace[i].op \in {"Get", "NewHelper", "KeystoneDeleteV2", "KeystoneDeleteV3",
                                      "Update", "SetAfter", "StatusPatch"}
                  /\ trace[i].op = "Update" =>
                        i = 5 /\ trace[4] = Call("KeystoneDeleteV3", "ok")
            /\ pc \notin {"addFinalizer", "getSecret", "exposeV2", "exposeV3", "getSecretInit",
                          "ks1", "ks2", "update", "upgrade", "deployment"})
    /\ [][instance.deleting =>
             /\ (cluster.res.finalizer /\ cluster'.res.exists) => cluster'.res.finalizer
             /\ ~cluster.res.finalizer => ~cluster'.res.finalizer
             /\ ~instance.finalizer => ~instance'.finalizer]_vars

\* C24 happens: after two failed calls a delete pass deregistered both facades,
\* removed the finalizer and the resource left the store.
DeletedAfterFailures ==
    /\ pc = "done"
    /\ instance.deleting
    /\ Len(trace) >= 5
    /\ trace[5] = Call("Update", "ok")
    /\ retries.limited /\ retries.left = 0
    /\ ~cluster.res.exists
    /\ cluster.exposed

====
